---- MODULE Spec2Model ----
(***************************************************************************)
(* Model of the writing-prompt bot (src/main.py): the users table, the     *)
(* three update handlers (start, stop, on_text), the daily dispatch job    *)
(* and the reminder scan job.                                              *)
(*                                                                         *)
(* Every coroutine is cut at its awaits on the Telegram API: the code      *)
(* between two awaits runs without interruption on the event loop, so it   *)
(* is one action; another coroutine may run while a send is awaited.       *)
(* Updates are handled one at a time (Application is built without         *)
(* concurrent_updates), jobs run beside them.  An awaited send may raise;  *)
(* nothing in the file catches it, so it ends the coroutine that awaited   *)
(* it.  The SQLite store is taken to be available.                         *)
(*                                                                         *)
(* reminder_scan_job is defined in the file but its registration is        *)
(* commented out (main.py:254-260); the model schedules it, as the         *)
(* statements about it suppose.                                            *)
(***************************************************************************)
EXTENDS Integers, Sequences, FiniteSets, TLC

\* ---------------------------------------------------------------- bounds
NumUsers == 2
MaxDays == 1
NumPrompts == 2
MaxCount == 2
TickHours == 24

\* ------------------------------------------------------ program constants
NULL == -1
CORRUPT == -2
ReminderDelayHours == 24

Users == 1..NumUsers
MaxClock == MaxDays * TickHours

VARIABLES
  db,          \* table users: user_id -> row, DOMAIN db = the stored user_ids
  clock,       \* wall clock, in hours
  promptsFile, \* number of entries of prompts.json
  dPc,         \* daily_9_msk_job: "idle", "send" (awaiting a send), "mark"
  dRows,       \* daily_9_msk_job: rows of db_all_users() not yet finished,
               \* the first one being the row in hand
  dPrompts,    \* daily_9_msk_job: len(prompts) loaded by this run
  dSentTime,   \* daily_9_msk_job: sent_time of this run
  sPc,         \* reminder_scan_job: "idle", "send", "mark"
  sRows,       \* reminder_scan_job: rows of db_all_users() not yet finished
  sNow,        \* reminder_scan_job: now of this run
  hPc,         \* start handler: "idle", "send" (awaiting the prompt), "mark"
  hUser,       \* start handler: user_id of the update in flight
  hPrompts,    \* start handler: len(prompts) loaded by the update in flight
  ev,          \* the last thing done: operation, user, message, outcome
  remCount,    \* history: reminders the scan sent a user since the user's
               \* last recorded prompt, counted up to MaxCount
  advSince     \* history: per user "acked" (a text was handled since the
               \* dispatch last recorded a prompt for the user), "advanced"
               \* (none was), or "untracked" where the history is not kept

vars == <<db, clock, promptsFile, dPc, dRows, dPrompts, dSentTime,
          sPc, sRows, sNow, hPc, hUser, hPrompts, ev, remCount, advSince>>

dailyVars == <<dPc, dRows, dPrompts, dSentTime>>
scanVars == <<sPc, sRows, sNow>>
startVars == <<hPc, hUser, hPrompts>>

\* ------------------------------------------------------------- the store
DefaultRow(user_id) ==
  [user_id |-> user_id, prompt_index |-> 0, last_prompt_ts |-> NULL,
   answered |-> 0, reminder_sent |-> 0]

db_ensure_user(d, user_id) ==
  IF user_id \in DOMAIN d THEN d ELSE d @@ (user_id :> DefaultRow(user_id))

\* an UPDATE that leaves answered as it was
db_mark_prompt_sent_KeepsAnswered(d, user_id, prompt_index, sent_dt) ==
  [v \in DOMAIN d |->
     IF v = user_id
       THEN [d[v] EXCEPT !.prompt_index = prompt_index,
                         !.last_prompt_ts = sent_dt,
                         !.reminder_sent = 0]
       ELSE d[v]]

db_mark_prompt_sent(d, user_id, prompt_index, sent_dt) ==
  [v \in DOMAIN d |->
     IF v = user_id
       THEN [d[v] EXCEPT !.prompt_index = prompt_index,
                         !.last_prompt_ts = sent_dt,
                         !.answered = 0,
                         !.reminder_sent = 0]
       ELSE d[v]]

db_mark_answered(d, user_id) ==
  [v \in DOMAIN d |-> IF v = user_id THEN [d[v] EXCEPT !.answered = 1] ELSE d[v]]

\* an UPDATE of the reminder flag that also clears answered
db_mark_reminder_sent_ClearsAnswered(d, user_id) ==
  [v \in DOMAIN d |->
     IF v = user_id THEN [d[v] EXCEPT !.reminder_sent = 1, !.answered = 0]
     ELSE d[v]]

db_mark_reminder_sent(d, user_id) ==
  [v \in DOMAIN d |-> IF v = user_id THEN [d[v] EXCEPT !.reminder_sent = 1] ELSE d[v]]

\* an unsubscribe that keeps the row and only forgets the timestamp
db_delete_user_Tombstone(d, user_id) ==
  [v \in DOMAIN d |->
     IF v = user_id THEN [d[v] EXCEPT !.last_prompt_ts = NULL] ELSE d[v]]

db_delete_user(d, user_id) ==
  [v \in DOMAIN d \ {user_id} |-> d[v]]

\* SELECT * FROM users: the rows in rowid (= user_id) order
RECURSIVE RowsFrom(_, _)
RowsFrom(d, k) ==
  IF k > NumUsers THEN <<>>
  ELSE IF k \in DOMAIN d THEN <<d[k]>> \o RowsFrom(d, k + 1)
  ELSE RowsFrom(d, k + 1)

db_all_users(d) == RowsFrom(d, 1)

\* A fetched row keeps the values it was read with.  Of a row each job holds
\* the columns it reads: main.py:134-136 and main.py:163-166.
Columns(rows, cols) ==
  [i \in 1..Len(rows) |-> [c \in cols |-> rows[i][c]]]

DailyColumns == {"user_id", "answered", "prompt_index"}
ScanColumns == {"user_id", "answered", "reminder_sent", "last_prompt_ts"}

\* ------------------------------------------------------------ the events
NoEvent == [op |-> "none", user |-> 0, msg |-> "none", idx |-> NULL, ok |-> TRUE]

Event(op, user, msg, idx, ok) ==
  [op |-> op, user |-> user, msg |-> msg, idx |-> idx, ok |-> ok]

\* the history of reminders: a prompt recorded in the user's row starts a
\* new prompt cycle, a reminder of the scan is counted in the running one
PromptRecorded(cnt, d, user_id) ==
  IF user_id \in DOMAIN d THEN [cnt EXCEPT ![user_id] = 0] ELSE cnt

ReminderCounted(cnt, user_id) ==
  [cnt EXCEPT ![user_id] = IF @ < MaxCount THEN @ + 1 ELSE @]

\* the history of advances: the dispatch recorded a prompt in the user's
\* row; a text of the user was handled
AdvanceNoted(h, d, user_id) ==
  IF user_id \in DOMAIN d /\ h[user_id] # "untracked"
    THEN [h EXCEPT ![user_id] = "advanced"] ELSE h

TextNoted(h, user_id) ==
  IF h[user_id] # "untracked" THEN [h EXCEPT ![user_id] = "acked"] ELSE h

\* the state main() leaves before run_polling: table created, nothing sent
Boot ==
  /\ db = << >>
  /\ clock = 0
  /\ promptsFile = NumPrompts
  /\ dPc = "idle" /\ dRows = <<>> /\ dPrompts = 0 /\ dSentTime = 0
  /\ sPc = "idle" /\ sRows = <<>> /\ sNow = 0
  /\ hPc = "idle" /\ hUser = 0 /\ hPrompts = 0
  /\ ev = NoEvent
  /\ remCount = [u \in Users |-> 0]

Init ==
  /\ Boot
  /\ advSince = [u \in Users |-> "untracked"]

\* ------------------------------------------------------------- the clock
Tick ==
  /\ clock + TickHours <= MaxClock
  /\ clock' = clock + TickHours
  /\ ev' = Event("tick", 0, "none", NULL, TRUE)
  /\ UNCHANGED <<db, promptsFile, dailyVars, scanVars, startVars, remCount, advSince>>

\* -------------------------------------------------------------- handlers
\* Updates are processed one after the other: no handler begins while start
\* is suspended at an await.
HandlerFree == hPc = "idle"

\* on_text, main.py:212-228.  The reply is its last statement.
on_text_reply(row) ==
  IF row.last_prompt_ts = NULL THEN "noinitprompt" ELSE "received"

\* an acknowledgment that flips the flag instead of setting it
on_text_db_Toggles(d, user_id) ==
  LET d1 == db_ensure_user(d, user_id)
      u == d1[user_id]
  IN IF u.last_prompt_ts = NULL THEN d1
     ELSE [d1 EXCEPT ![user_id].answered = 1 - @]

on_text_db(d, user_id) ==
  LET d1 == db_ensure_user(d, user_id)
      u == d1[user_id]
  IN IF u.last_prompt_ts = NULL THEN d1
     ELSE IF u.answered = 1 THEN d1
     ELSE db_mark_answered(d1, user_id)

OnText(user_id, ok) ==
  /\ HandlerFree
  /\ db' = on_text_db(db, user_id)
  /\ ev' = Event("on_text", user_id,
                 on_text_reply(db_ensure_user(db, user_id)[user_id]), NULL, ok)
  /\ advSince' = TextNoted(advSince, user_id)
  /\ UNCHANGED <<clock, promptsFile, dailyVars, scanVars, startVars, remCount>>

\* stop, main.py:206-210
Stop(user_id, ok) ==
  /\ HandlerFree
  /\ db' = db_delete_user(db, user_id)
  /\ ev' = Event("stop", user_id, "unsub", NULL, ok)
  /\ UNCHANGED <<clock, promptsFile, dailyVars, scanVars, startVars, remCount, advSince>>

\* start, main.py:190-198 and 204: up to the end of the first reply.
\* load_prompts raises on an empty catalog, after db_ensure_user.
StartBegin(user_id, ok) ==
  /\ HandlerFree
  /\ db' = db_ensure_user(db, user_id)
  /\ IF promptsFile < 1
       THEN /\ ev' = Event("start", user_id, "none", NULL, FALSE)
            /\ hPc' = "idle" /\ hUser' = 0 /\ hPrompts' = 0
       ELSE IF db'[user_id].last_prompt_ts = NULL
       THEN /\ ev' = Event("start", user_id, "sub", NULL, ok)
            /\ IF ok THEN hPc' = "send" /\ hUser' = user_id
                          /\ hPrompts' = promptsFile
                     ELSE hPc' = "idle" /\ hUser' = 0 /\ hPrompts' = 0
       ELSE /\ ev' = Event("start", user_id, "alreadysub", NULL, ok)
            /\ hPc' = "idle" /\ hUser' = 0 /\ hPrompts' = 0
  /\ UNCHANGED <<clock, promptsFile, dailyVars, scanVars, remCount, advSince>>

\* start, main.py:199-200: the await of send_prompt_to_user(prompts[0])
StartSend(ok) ==
  /\ hPc = "send"
  /\ ev' = Event("start_send", hUser, "prompt", 0, ok)
  /\ IF ok THEN hPc' = "mark" /\ hUser' = hUser /\ hPrompts' = hPrompts
           ELSE hPc' = "idle" /\ hUser' = 0 /\ hPrompts' = 0
  /\ UNCHANGED <<db, clock, promptsFile, dailyVars, scanVars, remCount, advSince>>

\* start, main.py:201-202
StartMark ==
  /\ hPc = "mark"
  /\ db' = db_mark_prompt_sent(db, hUser, 0, clock)
  /\ ev' = Event("start_mark", hUser, "none", 0, TRUE)
  /\ hPc' = "idle" /\ hUser' = 0 /\ hPrompts' = 0
  /\ remCount' = PromptRecorded(remCount, db, hUser)
  /\ UNCHANGED <<clock, promptsFile, dailyVars, scanVars, advSince>>

\* ------------------------------------------------------ the daily dispatch
\* a next index that is not reduced modulo the catalog length
NextIdx_NoWrap(idx, n) == idx + 1

\* a next index reduced modulo one more than the catalog length
NextIdx_WrapsLate(idx, n) == (idx + 1) % (n + 1)

\* maybe_send_next_prompt, main.py:147
NextIdx(idx, n) == (idx + 1) % n

\* a dispatch that advances whatever answered is
SendsReminder_Never(user_row) == FALSE

\* maybe_send_next_prompt, main.py:138: the branch taken for a row
SendsReminder(user_row) == user_row.answered # 1

\* daily_9_msk_job, main.py:152-156, up to the first await of the loop.
\* load_prompts raises on an empty catalog and the job ends there.
DailyStart ==
  /\ dPc = "idle"
  /\ IF promptsFile < 1
       THEN /\ dPrompts' = 0
            /\ dSentTime' = dSentTime
            /\ dRows' = <<>>
            /\ dPc' = "idle"
            /\ ev' = Event("daily_start", 0, "none", NULL, FALSE)
       ELSE /\ dPrompts' = promptsFile
            /\ dSentTime' = clock
            /\ dRows' = Columns(db_all_users(db), DailyColumns)
            /\ dPc' = IF dRows' = <<>> THEN "idle" ELSE "send"
            /\ ev' = Event("daily_start", 0, "none", NULL, TRUE)
  /\ UNCHANGED <<db, clock, promptsFile, scanVars, startVars, remCount, advSince>>

\* a dispatch that swallows the exception of the send and goes on to
\* db_mark_prompt_sent
DailyAborted_Swallowed ==
  /\ dPc' = "mark"
  /\ dRows' = dRows

\* The job after an exception left maybe_send_next_prompt: nothing catches
\* it in daily_9_msk_job, the for loop ends.
DailyAborted ==
  /\ dPc' = "idle"
  /\ dRows' = <<>>

\* The for loop of main.py:156 moving to its next row
DailyNextRow ==
  /\ dRows' = Tail(dRows)
  /\ dPc' = IF Tail(dRows) = <<>> THEN "idle" ELSE "send"

\* maybe_send_next_prompt, main.py:134-149: the awaited send for the row
DailySend(ok) ==
  /\ dPc = "send"
  /\ LET u == Head(dRows) IN
       IF SendsReminder(u)
         THEN /\ ev' = Event("daily_send", u.user_id, "reminder", NULL, ok)
              /\ IF ok THEN DailyNextRow ELSE DailyAborted
         ELSE /\ ev' = Event("daily_send", u.user_id, "prompt",
                             NextIdx(u.prompt_index, dPrompts), ok)
              /\ IF ok THEN dPc' = "mark" /\ dRows' = dRows ELSE DailyAborted
  /\ UNCHANGED <<db, clock, promptsFile, dPrompts, dSentTime, scanVars, startVars, remCount, advSince>>

\* maybe_send_next_prompt, main.py:150
DailyMark ==
  /\ dPc = "mark"
  /\ LET u == Head(dRows) IN
       /\ db' = db_mark_prompt_sent(db, u.user_id,
                                    NextIdx(u.prompt_index, dPrompts), dSentTime)
       /\ ev' = Event("daily_mark", u.user_id, "none",
                      NextIdx(u.prompt_index, dPrompts), TRUE)
  /\ DailyNextRow
  /\ remCount' = PromptRecorded(remCount, db, Head(dRows).user_id)
  /\ advSince' = AdvanceNoted(advSince, db, Head(dRows).user_id)
  /\ UNCHANGED <<clock, promptsFile, dPrompts, dSentTime, scanVars, startVars>>

\* ------------------------------------------------------- the reminder scan
\* a parse without the try/except: whatever is stored counts as a time
ParsesOk_Anything(last_prompt_ts) == TRUE

\* datetime.fromisoformat of a stored value, main.py:177-184: the values
\* db_mark_prompt_sent writes are isoformat() of an aware datetime and parse
\* back to the same instant
ParsesOk(last_prompt_ts) == last_prompt_ts >= 0

\* a scan that does not look at reminder_sent
Due_IgnoresReminderSent(u, now) ==
  /\ u.last_prompt_ts # NULL
  /\ u.answered # 1
  /\ ParsesOk(u.last_prompt_ts)
  /\ now - u.last_prompt_ts >= ReminderDelayHours

\* reminder_scan_job, main.py:163-186: does the row get a reminder
Due(u, now) ==
  /\ u.last_prompt_ts # NULL
  /\ u.answered # 1
  /\ u.reminder_sent # 1
  /\ ParsesOk(u.last_prompt_ts)
  /\ now - u.last_prompt_ts >= ReminderDelayHours

\* the for loop of main.py:162 running through the rows that take a continue
RECURSIVE SkipToDue(_, _)
SkipToDue(rows, now) ==
  IF rows = <<>> THEN <<>>
  ELSE IF Due(Head(rows), now) THEN rows
  ELSE SkipToDue(Tail(rows), now)

\* reminder_scan_job, main.py:159-187, up to the first await of the loop
ScanStart ==
  /\ sPc = "idle"
  /\ sNow' = clock
  /\ sRows' = SkipToDue(Columns(db_all_users(db), ScanColumns), clock)
  /\ sPc' = IF sRows' = <<>> THEN "idle" ELSE "send"
  /\ ev' = Event("scan_start", 0, "none", NULL, TRUE)
  /\ UNCHANGED <<db, clock, promptsFile, dailyVars, startVars, remCount, advSince>>

\* reminder_scan_job, main.py:187: the awaited send_reminder_to_user
ScanSend(ok) ==
  /\ sPc = "send"
  /\ ev' = Event("scan_send", Head(sRows).user_id, "reminder", NULL, ok)
  /\ IF ok THEN sPc' = "mark" /\ sRows' = sRows
           ELSE sPc' = "idle" /\ sRows' = <<>>
  /\ remCount' = IF ok THEN ReminderCounted(remCount, Head(sRows).user_id)
                       ELSE remCount
  /\ UNCHANGED <<db, clock, promptsFile, sNow, dailyVars, startVars, advSince>>

\* reminder_scan_job, main.py:188, and the loop up to its next await
ScanMark ==
  /\ sPc = "mark"
  /\ db' = db_mark_reminder_sent(db, Head(sRows).user_id)
  /\ ev' = Event("scan_mark", Head(sRows).user_id, "none", NULL, TRUE)
  /\ sRows' = SkipToDue(Tail(sRows), sNow)
  /\ sPc' = IF sRows' = <<>> THEN "idle" ELSE "send"
  /\ UNCHANGED <<clock, promptsFile, sNow, dailyVars, startVars, remCount, advSince>>

\* ------------------------------------------------------- the specification
Next ==
  \/ Tick
  \/ \E user_id \in Users, ok \in BOOLEAN : OnText(user_id, ok)
  \/ \E user_id \in Users, ok \in BOOLEAN : Stop(user_id, ok)
  \/ \E user_id \in Users, ok \in BOOLEAN : StartBegin(user_id, ok)
  \/ \E ok \in BOOLEAN : StartSend(ok)
  \/ StartMark
  \/ DailyStart
  \/ \E ok \in BOOLEAN : DailySend(ok)
  \/ DailyMark
  \/ ScanStart
  \/ \E ok \in BOOLEAN : ScanSend(ok)
  \/ ScanMark

Spec == Init /\ [][Next]_vars

\* ------------------------------------------- the catalog file being edited
\* prompts.json is read again by every load_prompts (main.py:154, 194): an
\* edit of the file between two reads changes the catalog a later run loads
EditCatalog(n) ==
  /\ n # promptsFile
  /\ promptsFile' = n
  /\ ev' = Event("edit_catalog", 0, "none", NULL, TRUE)
  /\ UNCHANGED <<db, clock, dailyVars, scanVars, startVars, remCount, advSince>>

\* the dispatch and the handlers, with the history of advances kept and
\* the catalog file editable
InitDispatch ==
  /\ Boot
  /\ advSince = [u \in Users |-> "acked"]

NextDispatch ==
  \/ Tick
  \/ \E user_id \in Users, ok \in BOOLEAN : OnText(user_id, ok)
  \/ \E user_id \in Users, ok \in BOOLEAN : Stop(user_id, ok)
  \/ \E user_id \in Users, ok \in BOOLEAN : StartBegin(user_id, ok)
  \/ \E ok \in BOOLEAN : StartSend(ok)
  \/ StartMark
  \/ DailyStart
  \/ \E ok \in BOOLEAN : DailySend(ok)
  \/ DailyMark
  \/ \E n \in 0..NumPrompts : EditCatalog(n)

SpecDispatch == InitDispatch /\ [][NextDispatch]_vars

\* ------------------------------------------------- a stored value corrupted
\* a last_prompt_ts that datetime.fromisoformat rejects (main.py:177-184);
\* the program writes none, the value comes from outside
CorruptRow(user_id) ==
  /\ user_id \in DOMAIN db
  /\ db[user_id].last_prompt_ts \notin {NULL, CORRUPT}
  /\ db' = [db EXCEPT ![user_id].last_prompt_ts = CORRUPT]
  /\ ev' = Event("corrupt", user_id, "none", NULL, TRUE)
  /\ UNCHANGED <<clock, promptsFile, dailyVars, scanVars, startVars, remCount, advSince>>

\* the reminder scan and the handlers, with stored timestamps corruptible
NextScan ==
  \/ Tick
  \/ \E user_id \in Users, ok \in BOOLEAN : OnText(user_id, ok)
  \/ \E user_id \in Users, ok \in BOOLEAN : Stop(user_id, ok)
  \/ \E user_id \in Users, ok \in BOOLEAN : StartBegin(user_id, ok)
  \/ \E ok \in BOOLEAN : StartSend(ok)
  \/ StartMark
  \/ ScanStart
  \/ \E ok \in BOOLEAN : ScanSend(ok)
  \/ ScanMark
  \/ \E user_id \in Users : CorruptRow(user_id)

SpecScan == Init /\ [][NextScan]_vars

\* ---------------------------------------------------------------- C1
RECURSIVE Rounds(_, _, _)
Rounds(k, idx, n) == IF k = 0 THEN idx ELSE Rounds(k - 1, NextIdx(idx, n), n)

C1_DispatchStep ==
  /\ (ev'.op = "daily_send" /\ Head(dRows).answered = 1) =>
        /\ ev'.msg = "prompt"
        /\ ev'.idx = (Head(dRows).prompt_index + 1) % dPrompts
        /\ ev'.idx \in 0..(dPrompts - 1)
  /\ (ev'.op = "daily_mark" /\ ev'.user \in DOMAIN db) =>
        /\ Head(dRows).answered = 1
        /\ ev'.user = Head(dRows).user_id
        /\ db'[ev'.user].prompt_index
             = (Head(dRows).prompt_index + 1) % dPrompts

C1_CyclicClosure ==
  \A u \in DOMAIN db :
    Rounds(promptsFile, db[u].prompt_index, promptsFile) = db[u].prompt_index

\* C1: when the daily dispatch processes a row with answered = 1, the prompt
\* it sends and the prompt_index it stores are (prompt_index + 1) mod
\* len(prompts); and from every stored prompt_index, len(prompts) successive
\* advances lead back to it.
C1_NextIndexCyclic == [][C1_DispatchStep]_vars /\ []C1_CyclicClosure

\* the dispatch has just stored index 0 after a wrap from the last prompt
C1_Witness ==
  /\ ev.op = "daily_mark"
  /\ ev.idx = 0
  /\ ev.user \in DOMAIN db
  /\ db[ev.user].prompt_index = 0
  /\ db[ev.user].answered = 0

\* ---------------------------------------------------------------- C2
\* C2: the dispatch never applies db_mark_prompt_sent to a user whose stored
\* row has answered = 0 at the moment it is applied.
C2_AdvanceOnlyWhenStoredAnswered ==
  [][(ev'.op = "daily_mark" /\ ev'.user \in DOMAIN db)
       => db[ev'.user].answered = 1]_vars

\* ---------------------------------------------------------------- C3
\* C3: when the dispatch processes a user whose stored last_prompt_ts is
\* NULL, it sends prompts[0] (to be recorded with index 0), not a reminder.
C3_NeverPromptedGetsFirstPrompt ==
  (/\ ev.op = "daily_send"
   /\ ev.user \in DOMAIN db
   /\ db[ev.user].last_prompt_ts = NULL)
  => (ev.msg = "prompt" /\ ev.idx = 0)

\* ---------------------------------------------------------------- C4
C4_ScanSendStep ==
  ev'.op = "scan_send" =>
    LET u == Head(sRows) IN
      /\ ev'.user = u.user_id
      /\ ev'.msg = "reminder"
      /\ u.reminder_sent # 1
      /\ u.answered # 1
      /\ u.last_prompt_ts # NULL
      /\ sNow - u.last_prompt_ts >= 24

C4_ScanStartStep ==
  ev'.op = "scan_start" =>
    \A u \in DOMAIN db :
      (\/ db[u].reminder_sent = 1
       \/ db[u].answered = 1
       \/ db[u].last_prompt_ts = NULL
       \/ clock - db[u].last_prompt_ts < 24)
      => (sPc' = "send" => Head(sRows').user_id # u)

C4_AtMostOnePerCycle == \A u \in Users : remCount[u] <= 1

\* C4: the scan sends a reminder only for a row it read with reminder_sent
\* = 0, answered = 0 and a last prompt at least 24 hours old; a run that
\* starts when the stored row is reminded, answered or younger takes no
\* action for the user; and between two recorded prompts of a user, the
\* scan runs send that user at most one reminder.
C4_ReminderOncePerCycle ==
  [][C4_ScanSendStep /\ C4_ScanStartStep]_vars /\ []C4_AtMostOnePerCycle

\* a scan run has started after the user's reminder fired and does nothing
C4_Witness ==
  /\ ev.op = "scan_start"
  /\ sPc = "idle"
  /\ 1 \in DOMAIN db
  /\ remCount[1] = 1
  /\ db[1].reminder_sent = 1
  /\ db[1].answered = 0
  /\ clock - db[1].last_prompt_ts >= 24

\* ---------------------------------------------------------------- C5
\* C5: in every reachable state a row whose last_prompt_ts is NULL has
\* answered = 0 and reminder_sent = 0.
C5_NeverPromptedHasFlagsClear ==
  \A u \in DOMAIN db :
    db[u].last_prompt_ts = NULL => (db[u].answered = 0 /\ db[u].reminder_sent = 0)

\* ---------------------------------------------------------------- C6
\* C6: whenever the scan sets reminder_sent for a user, the stored row at
\* that moment has last_prompt_ts present and answered = 0.
C6_ReminderMarkedOnlyWhenUnanswered ==
  [][(ev'.op = "scan_mark" /\ ev'.user \in DOMAIN db)
       => (db[ev'.user].last_prompt_ts # NULL /\ db[ev'.user].answered = 0)]_vars

\* ---------------------------------------------------------------- C7
C7_SecondOnTextStep ==
  (/\ ev.op = "on_text" /\ ev.msg = "received"
   /\ ev'.op = "on_text" /\ ev'.user = ev.user)
  => (/\ db[ev.user].answered = 1
      /\ db' = db
      /\ db'[ev.user].answered = 1
      /\ ev'.msg = "received")

C7_FirstOnTextState ==
  (ev.op = "on_text" /\ ev.msg = "received")
  => (ev.user \in DOMAIN db /\ db[ev.user].answered = 1)

\* C7: for a user with a prompt outstanding, on_text twice in a row leaves
\* answered = 1 after the first and after the second call, the second call
\* changes no field of the table, and both reach the 'received' reply.
C7_AcknowledgeIdempotent ==
  [][C7_SecondOnTextStep]_vars /\ []C7_FirstOnTextState

\* on_text has acknowledged the outstanding prompt of a reminded user and no
\* handler is in flight: the next update may be the same user's text again
C7_Witness ==
  /\ ev.op = "on_text" /\ ev.msg = "received"
  /\ hPc = "idle"
  /\ ev.user \in DOMAIN db
  /\ db[ev.user].answered = 1
  /\ db[ev.user].reminder_sent = 1
  /\ db[ev.user].prompt_index = 1

\* ---------------------------------------------------------------- C8
C8_StopState == ev.op = "stop" => ev.user \notin DOMAIN db

C8_StartStep ==
  /\ (ev'.op = "start" /\ ev'.user \notin DOMAIN db) =>
        /\ ev'.msg = "sub"
        /\ db'[ev'.user] = DefaultRow(ev'.user)
  /\ (ev.op = "stop" /\ ev'.op = "on_text" /\ ev'.user = ev.user) =>
        /\ ev'.msg = "noinitprompt"
        /\ db'[ev'.user] = DefaultRow(ev'.user)
  /\ (ev'.op = "start_send" /\ hPc = "send") =>
        /\ ev'.user = hUser /\ ev'.msg = "prompt" /\ ev'.idx = 0
  /\ ev'.op = "start_mark" =>
        /\ ev'.user \in DOMAIN db'
        /\ db'[ev'.user] = [user_id |-> ev'.user, prompt_index |-> 0,
                            last_prompt_ts |-> clock, answered |-> 0,
                            reminder_sent |-> 0]

\* C8: after stop the user's row is absent; a command of a user without a
\* row is handled as for a never-seen user: /start creates the default row,
\* replies 'sub', sends prompts[0] and leaves prompt_index = 0, answered =
\* 0, reminder_sent = 0 with the time of recording, whatever row the user
\* had before the stop.
C8_StopThenBootstrap == [][C8_StartStep]_vars /\ []C8_StopState

\* the dispatch still holds a row of the user read at prompt_index 1, the
\* user has since been deleted, and /start has recorded prompts[0] afresh
C8_Witness ==
  /\ ev.op = "start_mark"
  /\ dPc = "send"
  /\ Head(dRows).user_id = ev.user
  /\ Head(dRows).prompt_index = 1
  /\ Head(dRows).answered = 1
  /\ db[ev.user].prompt_index = 0
  /\ db[ev.user].answered = 0
  /\ db[ev.user].reminder_sent = 0

\* ---------------------------------------------------------------- C9
\* C9: a failed send for one row of the dispatch does not abort the batch:
\* the job goes on to the remaining rows of its db_all_users() result.
C9_FailureDoesNotAbortBatch ==
  [][(ev'.op = "daily_send" /\ ~ev'.ok)
       => (/\ dRows' = Tail(dRows)
           /\ (Tail(dRows) # <<>> => dPc' = "send"))]_vars

\* ---------------------------------------------------------------- C10
C10_FailedSendStep ==
  (ev'.op \in {"daily_send", "scan_send", "start_send"} /\ ~ev'.ok)
  => (/\ db' = db
      /\ ev'.op = "daily_send" => dPc' # "mark"
      /\ ev'.op = "scan_send" => sPc' # "mark"
      /\ ev'.op = "start_send" => hPc' # "mark")

C10_MarkOnlyAfterSend ==
  /\ (dPc' = "mark" /\ dPc # "mark") =>
        (ev'.op = "daily_send" /\ ev'.msg = "prompt" /\ ev'.ok)
  /\ (sPc' = "mark" /\ sPc # "mark") =>
        (ev'.op = "scan_send" /\ ev'.msg = "reminder" /\ ev'.ok)
  /\ (hPc' = "mark" /\ hPc # "mark") =>
        (ev'.op = "start_send" /\ ev'.msg = "prompt" /\ ev'.ok)
  /\ (db' # db /\ ev'.op \notin {"on_text", "stop", "start"}) =>
        \/ ev'.op = "daily_mark" /\ dPc = "mark"
        \/ ev'.op = "scan_mark" /\ sPc = "mark"
        \/ ev'.op = "start_mark" /\ hPc = "mark"

\* C10: a failed send in the dispatch, in the scan or in the /start bootstrap
\* leaves the table unchanged and is not followed by the db_mark_* of that
\* send; a db_mark_* is applied only after its send succeeded.
C10_CommitOnlyAfterSend == [][C10_FailedSendStep /\ C10_MarkOnlyAfterSend]_vars

\* the send of a next prompt has failed: the row is still answered, with
\* the index it had
C10_Witness ==
  /\ ev.op = "daily_send" /\ ev.msg = "prompt" /\ ~ev.ok
  /\ dPc = "idle"
  /\ ev.user \in DOMAIN db
  /\ db[ev.user].answered = 1
  /\ db[ev.user].prompt_index = 1
  /\ ev.idx = 0

\* ---------------------------------------------------------------- C11
\* a row the scan has to remind, by the fields it was read with
C11_DueRow(u, now) ==
  /\ u.last_prompt_ts \notin {NULL, CORRUPT}
  /\ u.answered = 0
  /\ u.reminder_sent = 0
  /\ now - u.last_prompt_ts >= 24

C11_UserIds(rows) == {rows[i].user_id : i \in 1..Len(rows)}

C11_DueIds(rows, now) ==
  {rows[i].user_id : i \in {j \in 1..Len(rows) : C11_DueRow(rows[j], now)}}

C11_ScanStep ==
  /\ ev'.op \in {"scan_send", "scan_mark"} =>
        /\ Head(sRows).last_prompt_ts # CORRUPT
        /\ (ev'.user \in DOMAIN db /\ db[ev'.user].last_prompt_ts = CORRUPT)
             => db'[ev'.user].last_prompt_ts = CORRUPT
  /\ ev'.op = "scan_start" =>
        /\ db' = db
        /\ \A u \in DOMAIN db :
             db[u].last_prompt_ts = CORRUPT => u \notin C11_DueIds(sRows', clock)
        /\ \A u \in DOMAIN db :
             C11_DueRow(db[u], clock) => u \in C11_UserIds(sRows')
        /\ sRows' # <<>> => (sPc' = "send" /\ C11_DueRow(Head(sRows'), clock))
  /\ ev'.op = "scan_mark" =>
        /\ C11_DueIds(Tail(sRows), sNow) \subseteq C11_UserIds(sRows')
        /\ sRows' # <<>> => (sPc' = "send" /\ C11_DueRow(Head(sRows'), sNow))

\* C11: a row whose last_prompt_ts does not parse gets no reminder and no
\* write from the scan, and the run goes on: every other row of the
\* db_all_users() result that is due is still reached and reminded.
C11_CorruptRowSkipped == [][C11_ScanStep]_vars

\* a run has started with user 1 corrupt and due user 2 in hand
C11_Witness ==
  /\ ev.op = "scan_start"
  /\ 1 \in DOMAIN db /\ db[1].last_prompt_ts = CORRUPT
  /\ db[1].answered = 0 /\ db[1].reminder_sent = 0
  /\ sPc = "send"
  /\ Head(sRows).user_id = 2

\* ---------------------------------------------------------------- C12
\* C12: a run of the dispatch ends only with the last row of its
\* db_all_users() result: every user with a row when the run started has
\* been sent the next prompt or a reminder, none is skipped.
C12_RunEndsAfterLastRow ==
  [][(dPc # "idle" /\ dPc' = "idle") => Len(dRows) = 1]_vars

\* ---------------------------------------------------------------- C13
\* the row a recorded prompt leaves, but for last_prompt_ts
C13_RecordedRow(u, idx) ==
  /\ db'[u].answered = 0
  /\ db'[u].reminder_sent = 0
  /\ db'[u].prompt_index = idx

\* the index given to db_mark_prompt_sent is the index of the text sent:
\* fixed by the send, kept while the coroutine waits, stored by the mark
C13_IndexSentIsIndexStored ==
  /\ (ev'.op = "daily_send" /\ ev'.msg = "prompt" /\ ev'.ok) =>
        (dPc' = "mark" /\ ev'.idx = NextIdx(Head(dRows').prompt_index, dPrompts'))
  /\ (dPc = "mark" /\ dPc' = "mark") => (dRows' = dRows /\ dPrompts' = dPrompts)
  /\ ev'.op = "daily_mark" =>
        (dPc = "mark" /\ ev'.idx = NextIdx(Head(dRows).prompt_index, dPrompts))
  /\ (ev'.op = "start_send" /\ ev'.ok) => (hPc' = "mark" /\ ev'.idx = 0)
  /\ ev'.op = "start_mark" => (hPc = "mark" /\ ev'.idx = 0)

C13_StampIsSendTimeStep ==
  (ev'.op \in {"start_mark", "daily_mark"} /\ ev'.user \in DOMAIN db) =>
    /\ C13_RecordedRow(ev'.user, ev'.idx)
    /\ db'[ev'.user].last_prompt_ts = clock

\* C13 as stated: right after a prompt was sent and recorded (the recording
\* follows the return of the send without a pause) the row has answered = 0,
\* reminder_sent = 0, prompt_index = the index sent and last_prompt_ts = the
\* time of the send.
C13_StampIsSendTime == [][C13_StampIsSendTimeStep /\ C13_IndexSentIsIndexStored]_vars

C13_StampIsSentTimeStep ==
  /\ (ev'.op \in {"start_mark", "daily_mark"} /\ ev'.user \in DOMAIN db) =>
        /\ C13_RecordedRow(ev'.user, ev'.idx)
        /\ db'[ev'.user].last_prompt_ts =
             IF ev'.op = "start_mark" THEN clock ELSE dSentTime
        /\ dSentTime <= clock
  /\ (ev'.op = "daily_start" /\ ev'.ok) => dSentTime' = clock
  /\ dPc # "idle" => dSentTime' = dSentTime

\* C13, amended: right after a prompt was sent and recorded the row has
\* answered = 0, reminder_sent = 0 and prompt_index = the index sent;
\* last_prompt_ts is the time read after the send for /start, and for the
\* dispatch the sent_time read once when the run started, which is not
\* later than the send.
C13_StampIsSentTime == [][C13_StampIsSentTimeStep /\ C13_IndexSentIsIndexStored]_vars

\* the dispatch has recorded a prompt sent a day after the run started
C13_Witness ==
  /\ ev.op = "daily_mark"
  /\ ev.user \in DOMAIN db
  /\ db[ev.user].last_prompt_ts = 0
  /\ clock = TickHours
  /\ db[ev.user].prompt_index = ev.idx
  /\ ev.idx = 1

\* ---------------------------------------------------------------- C14
C14_ReminderStep ==
  /\ ev'.op = "scan_send" =>
        (ev'.msg = "reminder" /\ db' = db)
  /\ ev'.op = "scan_mark" =>
        /\ DOMAIN db' = DOMAIN db
        /\ \A u \in DOMAIN db :
             /\ db'[u].prompt_index = db[u].prompt_index
             /\ db'[u].answered = db[u].answered
             /\ db'[u].last_prompt_ts = db[u].last_prompt_ts
             /\ db'[u].reminder_sent =
                  IF u = ev'.user THEN 1 ELSE db[u].reminder_sent
  /\ (ev'.op = "daily_send" /\ ev'.msg = "reminder") =>
        /\ db' = db
        /\ dPc' # "mark"
  /\ (ev'.op = "daily_mark" /\ dPc = "mark") => Head(dRows).answered = 1

\* C14: a reminder never moves the user through the catalog: the scan's
\* db_mark_reminder_sent changes reminder_sent of that row and nothing else,
\* and the reminder branch of the dispatch changes no row and is followed
\* by no db_mark_prompt_sent, also when reminder_sent is already 1.
C14_ReminderKeepsPlace == [][C14_ReminderStep]_vars

\* the dispatch has reminded a user the scan had reminded before
C14_Witness ==
  /\ ev.op = "daily_send" /\ ev.msg = "reminder" /\ ev.ok
  /\ ev.user \in DOMAIN db
  /\ db[ev.user].reminder_sent = 1
  /\ db[ev.user].answered = 0
  /\ db[ev.user].last_prompt_ts # NULL
  /\ remCount[ev.user] = 1

\* ---------------------------------------------------------------- C15
\* C15: on_text for a user without a prior prompt (no row, or a row with
\* last_prompt_ts NULL) answers 'noinitprompt', not 'received', and leaves
\* the user's row present with answered = 0, reminder_sent = 0,
\* prompt_index = 0 and last_prompt_ts NULL.
C15_NoPriorPromptKeepsDefaults ==
  [][(/\ ev'.op = "on_text"
      /\ db_ensure_user(db, ev'.user)[ev'.user].last_prompt_ts = NULL)
     => (/\ ev'.msg = "noinitprompt"
         /\ ev'.user \in DOMAIN db'
         /\ db'[ev'.user] = DefaultRow(ev'.user))]_vars

\* ---------------------------------------------------------------- C16
\* C16: when the dispatch sends a reminder to a user, the stored row of
\* that user does not have answered = 1 at that moment.
C16_NoReminderToAnswered ==
  (/\ ev.op = "daily_send" /\ ev.msg = "reminder" /\ ev.ok
   /\ ev.user \in DOMAIN db)
  => db[ev.user].answered # 1

\* ---------------------------------------------------------------- C17
\* C17: a text of the user handled after the dispatch has sent that user's
\* new prompt is not lost: once db_mark_prompt_sent of that prompt has run
\* too, the row has answered = 1.
C17_AckAfterSendSurvives ==
  [][(/\ ev.op = "on_text" /\ ev.msg = "received"
      /\ dPc = "mark" /\ Head(dRows).user_id = ev.user
      /\ ev'.op = "daily_mark")
     => db'[ev.user].answered = 1]_vars

\* ---------------------------------------------------------------- C18
C18_DispatchStep ==
  /\ ev'.op \in {"daily_start", "daily_send", "daily_mark"} =>
        \A u \in DOMAIN db :
          advSince[u] = "advanced" =>
            (u \in DOMAIN db' /\ db'[u].prompt_index = db[u].prompt_index)
  /\ (ev'.op = "daily_mark" /\ ev'.user \in DOMAIN db) =>
        advSince[ev'.user] = "acked"
  /\ (ev'.op = "daily_send" /\ advSince[ev'.user] = "advanced") =>
        ev'.msg = "reminder"

\* C18: the dispatch advances a user at most once per text handled: with no
\* on_text of the user since the dispatch last recorded a prompt for the
\* user, no step of a later run changes the user's prompt_index, and what
\* the later run sends the user is a reminder.
C18_AdvanceOncePerText == [][C18_DispatchStep]_vars

\* a later run has reminded a user the earlier run had advanced to index 1
C18_Witness ==
  /\ ev.op = "daily_send" /\ ev.msg = "reminder" /\ ev.ok
  /\ advSince[ev.user] = "advanced"
  /\ ev.user \in DOMAIN db
  /\ db[ev.user].prompt_index = 1
  /\ db[ev.user].answered = 0

\* ---------------------------------------------------------------- C19
C19_LookupStep ==
  /\ (ev'.op = "daily_send" /\ ev'.msg = "prompt") =>
        /\ dPrompts >= 1
        /\ ev'.idx >= 0
        /\ ev'.idx < dPrompts
  /\ ev'.op = "start_send" =>
        /\ hPrompts >= 1
        /\ ev'.idx >= 0
        /\ ev'.idx < hPrompts
  /\ (ev'.op = "daily_start" /\ ev'.ok) => dPrompts' = promptsFile
  /\ (ev'.op = "start" /\ hPc' = "send") => hPrompts' = promptsFile
  /\ (dPc # "idle" /\ dPc' # "idle") => dPrompts' = dPrompts
  /\ (hPc # "idle" /\ hPc' # "idle") => hPrompts' = hPrompts

\* C19: every catalog lookup made to send a prompt, in /start and in the
\* dispatch, uses an index from 0 to len(prompts) - 1 of the catalog that
\* call loaded, whatever prompt_index is stored and whether the catalog has
\* shrunk or grown since it was stored.
C19_LookupInRange == [][C19_LookupStep]_vars

\* a prompt was sent for a row whose stored index is beyond the catalog
\* this run loaded
C19_Witness ==
  /\ ev.op = "daily_send" /\ ev.msg = "prompt" /\ ev.ok
  /\ dPc = "mark"
  /\ Head(dRows).prompt_index = 1
  /\ dPrompts = 1
  /\ promptsFile = 2
  /\ ev.idx = 0

\* ---------------------------------------------------------------- C20
\* C20: a job sends a prompt or a reminder only to a user who has a row,
\* and records a prompt or a reminder only in a row that has had a prompt
\* recorded or whose /start is in flight: a user who has stopped, with or
\* without a row recreated by on_text, gets nothing from the jobs.
C20_NothingAfterStop ==
  [][/\ (ev'.op \in {"daily_send", "scan_send"} /\ ev'.ok) => ev'.user \in DOMAIN db
     /\ (/\ ev'.op \in {"daily_mark", "scan_mark"}
         /\ ev'.user \in DOMAIN db
         /\ hUser # ev'.user)
        => db[ev'.user].last_prompt_ts # NULL]_vars
====
